---- MODULE Spec2Model ----
(***************************************************************************)
(* A model of RedditTracker: the series store of reddit_tracker_core.py    *)
(* (normalisation, legacy migration, save and load through a JSON file),   *)
(* the fetcher, and the two poll loops (app.py, streamlit_app.py).         *)
(*                                                                         *)
(* Python values are modelled as follows.                                  *)
(*   str (a community name)   a sequence of code points                    *)
(*   dict (a Store)           [kind |-> "dict", items |-> <<entry, ...>>], *)
(*                            entries [name, points] in insertion order    *)
(*   list (legacy data)       [kind |-> "list", items |-> <<record, ...>>] *)
(*   a JSON object            a function from its field names              *)
(*   the data file            [exists, bytes], bytes a sequence of tokens  *)
(***************************************************************************)
EXTENDS Integers, Sequences, FiniteSets, TLC

VARIABLES
    file,           \* the persisted file DATA_FILE
    arg,            \* store harness: the object the caller passes to the store functions
    appended,       \* store harness: the samples the caller has appended to arg
    retry,          \* store harness: "failed" once a save has returned False,
                    \* "failed_appended" once the caller has appended since
    call,           \* store harness: the last call made and what it returned
    mode,           \* which program runs: "cli" (app.py) or "dash" (streamlit_app.py)
    subreddit,      \* the community name entered
    pc,             \* the poll loop's position
    tracking_data,  \* the poll loop's in-memory Store
    load_data,      \* the local `data` of the poll loop's load_data_from_json call
    save_data,      \* the local `data` of the poll loop's save_data_to_json call
    loaded,         \* tracking_data as the loop began with it
    online_users,   \* what the last get_online_users call returned
    save_ret,       \* what the loop's last save_data_to_json call returned
    ticks,          \* fetches made so far
    fetched,        \* the results of those fetches, in order
    stop_event,     \* the threading.Event of the dashboard's poller
    update_queue,   \* the queue.Queue the poller puts its messages on
    data_points,    \* history_entry['data_points'] of the poller
    ui_pc,          \* the UI thread's position in its load_data_from_json call
    ui_data,        \* the local `data` of that call
    response,       \* fetcher harness: the response the last request met
    session,        \* dashboard: st.session_state
    threads,        \* dashboard: the poller threads started so far
    events,         \* dashboard: the threading.Event made for each of them
    queues,         \* dashboard: the queue.Queue made for each of them
    pq,             \* dashboard: the UI thread's place in process_queue_updates
    notice          \* dashboard: what the button pressed in this run of the script
                    \* answered (st.error, st.warning, st.info, st.success)

StoreVars == <<file, arg, appended, retry, call>>

PollVars ==
    <<mode, subreddit, pc, tracking_data, load_data, save_data, loaded, online_users,
      save_ret, ticks, fetched, stop_event, update_queue, data_points, ui_pc, ui_data>>

DashVars == <<session, threads, events, queues, pq, notice>>

vars == <<StoreVars, PollVars, response, DashVars>>

\* ------------------------------------------------------------- bounds
MaxKeys == 3        \* keys of an input Store
MaxPoints == 1      \* samples of one input series
MaxLegacy == 2      \* records of an input legacy list
MaxAppends == 1     \* samples the caller of the store appends
MaxTicks == 3       \* fetches of one poll loop

\* ----------------------------------------------------------- strings
\* "Foo", "foo", "bar" as code points; "unknown" is migrate_data_format's default.
NameFoo == <<70, 111, 111>>
Namefoo == <<102, 111, 111>>
Namebar == <<98, 97, 114>>
NameUnknown == <<117, 110, 107, 110, 111, 119, 110>>
Names == {NameFoo, Namefoo, Namebar}

\* str.lower(), on ASCII letters
LowerChar(c) == IF c >= 65 /\ c <= 90 THEN c + 32 ELSE c

Lower(s) == [i \in 1..Len(s) |-> LowerChar(s[i])]

\* -------------------------------------------------------------- dicts
PyDict(items) == [kind |-> "dict", items |-> items]

PyList(items) == [kind |-> "list", items |-> items]

EmptyDict == PyDict(<<>>)

\* `k in d`, on the items of a dict
HasKey(items, k) == \E i \in 1..Len(items) : items[i].name = k

IndexOf(items, k) == CHOOSE i \in 1..Len(items) : items[i].name = k

\* d[k], for a key that is present
Series(d, k) == d.items[IndexOf(d.items, k)].points

KeysOf(d) == {d.items[i].name : i \in 1..Len(d.items)}

\* d[k] = v: replaces the value of a present key, else inserts at the end
SetItem(items, k, v) ==
    IF HasKey(items, k)
    THEN [items EXCEPT ![IndexOf(items, k)].points = v]
    ELSE Append(items, [name |-> k, points |-> v])

\* ---------------------------------------------- normalize_subreddit_names
\* The lists of a dict are objects: the heap holds their contents, and a dict
\* on the heap binds each name to a reference.
Alloc(items) ==
    [heap |-> [i \in 1..Len(items) |-> items[i].points],
     refs |-> [i \in 1..Len(items) |-> [name |-> items[i].name, ref |-> i]]]

Deref(heap, refs) ==
    [i \in 1..Len(refs) |-> [name |-> refs[i].name, points |-> heap[refs[i].ref]]]

\* A mutant of InitEntry: normalized_data[norm_name] = points (the caller's list)
InitEntryAlias(heap, normalized_data, norm_name, points_ref) ==
    [heap |-> heap,
     refs |-> Append(normalized_data, [name |-> norm_name, ref |-> points_ref])]

\* if norm_name not in normalized_data: normalized_data[norm_name] = []
InitEntry(heap, normalized_data, norm_name, points_ref) ==
    [heap |-> Append(heap, <<>>),
     refs |-> Append(normalized_data, [name |-> norm_name, ref |-> Len(heap) + 1])]

\* points of entry i are appended to the list bound to norm_name
RECURSIVE NormalizeLoop(_, _, _, _)
\* A mutant of ExtendEntry: normalized_data[norm_name] = list(points), an
\* assignment for the extend
ExtendEntryReplace(e, data, i, norm_name) ==
    NormalizeLoop([e.heap EXCEPT ![e.refs[IndexOf(e.refs, norm_name)].ref] =
                                     e.heap[data[i].ref]],
                  data, i + 1, e.refs)

ExtendEntry(e, data, i, norm_name) ==
    NormalizeLoop([e.heap EXCEPT ![e.refs[IndexOf(e.refs, norm_name)].ref] =
                                     @ \o e.heap[data[i].ref]],
                  data, i + 1, e.refs)

\* the body of `for subreddit, points in data.items()`, from entry i on
NormalizeLoop(heap, data, i, normalized_data) ==
    IF i > Len(data)
    THEN [heap |-> heap, refs |-> normalized_data]
    ELSE IF HasKey(normalized_data, Lower(data[i].name))
    THEN ExtendEntry([heap |-> heap, refs |-> normalized_data], data, i,
                     Lower(data[i].name))
    ELSE ExtendEntry(InitEntry(heap, normalized_data, Lower(data[i].name), data[i].ref),
                     data, i, Lower(data[i].name))

\* the values a call leaves behind: what it returns, and its argument
NormalizeResult(a, r) ==
    [ret |-> PyDict(Deref(r.heap, r.refs)), arg |-> PyDict(Deref(r.heap, a.refs))]

NormalizeDict(a) == NormalizeResult(a, NormalizeLoop(a.heap, a.refs, 1, <<>>))

\* The call normalize_subreddit_names(data): its return value, and the
\* argument as the call leaves it.
NormalizeCall(data) ==
    IF data.kind # "dict"
    THEN [ret |-> data, arg |-> data]
    ELSE NormalizeDict(Alloc(data.items))

normalize_subreddit_names(data) == NormalizeCall(data).ret

\* ------------------------------------------------- migrate_data_format
HasField(item, f) == f \in DOMAIN item

\* a mutant of SubredditOf: the .lower() is missing
SubredditRaw(item) ==
    IF HasField(item, "subreddit") THEN item["subreddit"] ELSE NameUnknown

\* item.get("subreddit", "unknown").lower()
SubredditOf(item) ==
    Lower(IF HasField(item, "subreddit") THEN item["subreddit"] ELSE NameUnknown)

\* the data point built from item["timestamp"], item["online_users"]
DataPoint(item) ==
    [timestamp |-> item["timestamp"], online_users |-> item["online_users"]]

\* new_data[subreddit].append(data_point), after the entry is initialized
AppendPoint(new_data, key, data_point) ==
    IF HasKey(new_data, key)
    THEN [new_data EXCEPT ![IndexOf(new_data, key)].points = Append(@, data_point)]
    ELSE Append(new_data, [name |-> key, points |-> <<data_point>>])

\* the body of `for item in old_data`, from record i on; a KeyError ends it
RECURSIVE MigrateLoop(_, _, _)
MigrateLoop(old_data, i, new_data) ==
    IF i > Len(old_data)
    THEN [exc |-> "none", ret |-> PyDict(new_data)]
    ELSE IF ~(HasField(old_data[i], "timestamp") /\ HasField(old_data[i], "online_users"))
    THEN [exc |-> "KeyError", ret |-> EmptyDict]
    ELSE MigrateLoop(old_data, i + 1,
                     AppendPoint(new_data, SubredditOf(old_data[i]), DataPoint(old_data[i])))

migrate_data_format(old_data) == MigrateLoop(old_data.items, 1, <<>>)

\* ------------------------------------------------- json.dump, json.load
\* The file's bytes are modelled at the grain of JSON tokens: punctuation,
\* a Store key ("name"), and one token per scalar member of an object.
Tok(t) == [t |-> t, v |-> <<>>]

FieldOrder == <<"subreddit", "timestamp", "online_users">>

WrapField(f, x) == IF f = "subreddit" THEN x ELSE <<x>>

UnwrapField(f, v) == IF f = "subreddit" THEN v ELSE v[1]

RECURSIVE DumpFields(_, _)
DumpFields(o, i) ==
    IF i > Len(FieldOrder) THEN <<>>
    ELSE (IF FieldOrder[i] \in DOMAIN o
          THEN <<[t |-> FieldOrder[i], v |-> WrapField(FieldOrder[i], o[FieldOrder[i]])]>>
          ELSE <<>>) \o DumpFields(o, i + 1)

DumpObject(o) == <<Tok("{")>> \o DumpFields(o, 1) \o <<Tok("}")>>

RECURSIVE DumpObjects(_, _)
DumpObjects(objs, i) ==
    IF i > Len(objs) THEN <<>> ELSE DumpObject(objs[i]) \o DumpObjects(objs, i + 1)

DumpArray(objs) == <<Tok("[")>> \o DumpObjects(objs, 1) \o <<Tok("]")>>

RECURSIVE DumpEntries(_, _)
DumpEntries(items, i) ==
    IF i > Len(items) THEN <<>>
    ELSE <<[t |-> "name", v |-> items[i].name]>> \o DumpArray(items[i].points)
         \o DumpEntries(items, i + 1)

\* json.dump(data, f): the tokens written
Dump(data) ==
    IF data.kind = "dict"
    THEN <<Tok("{")>> \o DumpEntries(data.items, 1) \o <<Tok("}")>>
    ELSE DumpArray(data.items)

ParseFail == [ok |-> FALSE, val |-> <<>>, next |-> 0]

\* the members of an object, up to its closing brace
RECURSIVE ParseFields(_, _, _)
ParseFields(b, p, acc) ==
    IF p > Len(b) THEN ParseFail
    ELSE IF b[p].t = "}" THEN [ok |-> TRUE, val |-> acc, next |-> p + 1]
    ELSE IF b[p].t \in {"subreddit", "timestamp", "online_users"}
    THEN ParseFields(b, p + 1, (b[p].t :> UnwrapField(b[p].t, b[p].v)) @@ acc)
    ELSE ParseFail

ParseObject(b, p) ==
    IF p <= Len(b) /\ b[p].t = "{" THEN ParseFields(b, p + 1, <<>>) ELSE ParseFail

\* the objects of an array, up to its closing bracket
RECURSIVE ParseElements(_, _, _)
ElementParsed(b, acc, o) ==
    IF o.ok THEN ParseElements(b, o.next, Append(acc, o.val)) ELSE ParseFail

ParseElements(b, p, acc) ==
    IF p > Len(b) THEN ParseFail
    ELSE IF b[p].t = "]" THEN [ok |-> TRUE, val |-> acc, next |-> p + 1]
    ELSE ElementParsed(b, acc, ParseObject(b, p))

ParseArray(b, p) ==
    IF p <= Len(b) /\ b[p].t = "[" THEN ParseElements(b, p + 1, <<>>) ELSE ParseFail

\* the entries of the top-level object, up to its closing brace
RECURSIVE ParseEntries(_, _, _)
EntryParsed(b, acc, name, a) ==
    IF a.ok THEN ParseEntries(b, a.next, SetItem(acc, name, a.val)) ELSE ParseFail

ParseEntries(b, p, acc) ==
    IF p > Len(b) THEN ParseFail
    ELSE IF b[p].t = "}" THEN [ok |-> TRUE, val |-> acc, next |-> p + 1]
    ELSE IF b[p].t = "name" THEN EntryParsed(b, acc, b[p].v, ParseArray(b, p + 1))
    ELSE ParseFail

\* the document parsed; one followed by more data does not parse
Parsed(b, r) ==
    IF r.ok /\ r.next = Len(b) + 1
    THEN [exc |-> "none", ret |-> IF b[1].t = "[" THEN PyList(r.val) ELSE PyDict(r.val)]
    ELSE [exc |-> "JSONDecodeError", ret |-> EmptyDict]

\* json.load(f): [exc, ret]
JsonLoad(b) ==
    Parsed(b, IF Len(b) = 0 THEN ParseFail
              ELSE IF b[1].t = "[" THEN ParseArray(b, 1)
              ELSE IF b[1].t = "{" THEN ParseEntries(b, 2, <<>>)
              ELSE ParseFail)

\* ------------------------------------------------------- the data file
MissingFile == [exists |-> FALSE, bytes |-> <<>>]

\* a mutant of OpenW: mode 'r+', which does not truncate
OpenNoTruncate(f) == [exists |-> TRUE, bytes |-> f.bytes]

\* open(filename, 'w'): creates or truncates
OpenW(f) == [exists |-> TRUE, bytes |-> <<>>]

\* what a writer that opened with 'w' writes from offset 0 when it flushes:
\* bytes another writer put beyond its own stay in place
WriteAt0(f, toks) ==
    [exists |-> TRUE, bytes |-> toks \o SubSeq(f.bytes, Len(toks) + 1, Len(f.bytes))]

\* the part of a document that reaches the file when the write fails midway
Partial(toks) == SubSeq(toks, 1, Len(toks) \div 2)

\* `except Exception` catches every error below; KeyboardInterrupt is none
IsException(exc) ==
    exc \in {"KeyError", "TypeError", "AttributeError", "OSError", "JSONDecodeError",
             "HTTPError", "ConnectionError", "Timeout", "RequestException"}

\* the outcomes the file system can give one save
IOOutcomes == {"ok", "open_fails", "dump_fails"}

\* --------------------------------------------------- save_data_to_json
\* lines 171-178, for a list: [exc, doc, arg]
PrepareMigrated(data, m) ==
    IF m.exc # "none"
    THEN [exc |-> m.exc, doc |-> EmptyDict, arg |-> data]
    ELSE [exc |-> "none", doc |-> normalize_subreddit_names(m.ret), arg |-> data]

\* line 178, for a dict
PrepareNormalized(n) == [exc |-> "none", doc |-> n.ret, arg |-> n.arg]

\* lines 171-178: migrate a list, then normalize; [exc, doc, arg]
SavePrepare(data) ==
    IF data.kind = "list"
    THEN PrepareMigrated(data, migrate_data_format(data))
    ELSE PrepareNormalized(NormalizeCall(data))

\* line 182 on the file f as opened: the tokens written reach it, or part of them
DumpStep(toks, f, io) ==
    IF io = "dump_fails" THEN WriteAt0(f, Partial(toks)) ELSE WriteAt0(f, toks)

\* lines 181-182 for the tokens of the prepared document: [exc, file, arg]
SaveWrite(p, toks, f, io) ==
    IF p.exc # "none" THEN [exc |-> p.exc, file |-> f, arg |-> p.arg]
    ELSE IF io = "open_fails" THEN [exc |-> "OSError", file |-> f, arg |-> p.arg]
    ELSE [exc |-> IF io = "dump_fails" THEN "OSError" ELSE "none",
          file |-> DumpStep(toks, OpenW(f), io), arg |-> p.arg]

SaveDump(p, f, io) == SaveWrite(p, Dump(p.doc), f, io)

\* the try body of save_data_to_json under file-system outcome io
SaveBody(data, f, io) == SaveDump(SavePrepare(data), f, io)

\* return True, or the handler's return False
SaveReturn(b) ==
    [ret |-> (b.exc = "none"),
     raised |-> (b.exc # "none" /\ ~IsException(b.exc)),
     exc |-> b.exc, file |-> b.file, arg |-> b.arg]

\* a mutant of save_data_to_json: it dumps the data without normalizing it
SaveRaw(data, f, io) ==
    IF data.kind = "list" \/ io # "ok"
    THEN SaveReturn(SaveBody(data, f, io))
    ELSE [ret |-> TRUE, raised |-> FALSE, exc |-> "none",
          file |-> WriteAt0(OpenW(f), Dump(data)), arg |-> data]

\* a mutant of save_data_to_json: data.update(normalized) before the dump
SaveInPlace(data, f, io) ==
    [SaveReturn(SaveBody(data, f, io)) EXCEPT
        !.arg = IF data.kind = "dict" THEN normalize_subreddit_names(data) ELSE data]

\* save_data_to_json(data): [ret, raised, exc, file, arg]; exc is the error the
\* try body ended with
save_data_to_json(data, f, io) == SaveReturn(SaveBody(data, f, io))

\* --------------------------------------------------- load_data_from_json
\* lines 209-215 on the parsed document j: [exc, data]
LoadMigrated(m) ==
    IF m.exc # "none" THEN [exc |-> m.exc, data |-> EmptyDict]
    ELSE [exc |-> "none", data |-> normalize_subreddit_names(m.ret)]

\* a mutant of LoadParsed: a mapping is taken as it is, not normalized
LoadParsedRaw(j) ==
    IF j.exc # "none" THEN [exc |-> j.exc, data |-> EmptyDict]
    ELSE IF j.ret.kind = "list" THEN LoadMigrated(migrate_data_format(j.ret))
    ELSE [exc |-> "none", data |-> j.ret]

LoadParsed(j) ==
    IF j.exc # "none" THEN [exc |-> j.exc, data |-> EmptyDict]
    ELSE IF j.ret.kind = "list" THEN LoadMigrated(migrate_data_format(j.ret))
    ELSE LoadMigrated(j)

\* lines 205-215: read and parse the file, migrate a list, normalize
LoadRead(f) == LoadParsed(JsonLoad(f.bytes))

\* a mutant of LoadReturn: the file is opened for writing before it is known
\* that there is something to write
LoadReturnTruncating(f, r) ==
    IF r.exc # "none"
    THEN [ret |-> EmptyDict, raised |-> ~IsException(r.exc), exc |-> r.exc,
          file |-> OpenW(f)]
    ELSE [ret |-> r.data, raised |-> FALSE, exc |-> "none",
          file |-> WriteAt0(OpenW(f), Dump(r.data))]

\* lines 218-225: write the data back and return it, or the handler's return {}
LoadReturn(f, r) ==
    IF r.exc # "none"
    THEN [ret |-> EmptyDict, raised |-> ~IsException(r.exc), exc |-> r.exc, file |-> f]
    ELSE [ret |-> r.data, raised |-> FALSE, exc |-> "none",
          file |-> WriteAt0(OpenW(f), Dump(r.data))]

\* a mutant of load_data_from_json: no os.path.exists test, and the open of a
\* file that is not there escapes
LoadNoExistsTest(f) ==
    IF ~f.exists
    THEN [ret |-> EmptyDict, raised |-> TRUE, exc |-> "FileNotFoundError", file |-> f]
    ELSE LoadReturn(f, LoadRead(f))

\* load_data_from_json(): [ret, raised, exc, file]; exc is the error the try
\* body ended with, "no_file" stands for the path that finds no file
load_data_from_json(f) ==
    IF ~f.exists
    THEN [ret |-> EmptyDict, raised |-> FALSE, exc |-> "no_file", file |-> f]
    ELSE LoadReturn(f, LoadRead(f))

\* ----------------------------------------------------- get_online_users
\* What one request can meet.  transport: the GET returns, or fails; status: the
\* HTTP status; body: what the response holds, and count: the value of
\* data.active_user_count where it is there (NullCount for a JSON null).
NullCount == [null |-> TRUE, v |-> 0]

Count(n) == [null |-> FALSE, v |-> n]

\* the field is whatever JSON value the endpoint sends: -1 stands for the
\* values that are not counts
Counts == {NullCount, Count(0), Count(10), Count(12), Count(42), Count(-1)}

Bodies == {"not_json", "null", "list", "no_data", "data_null", "data_empty", "count"}

Statuses == {200, 201, 300, 404, 500}

Responses ==
    {[transport |-> "ok", status |-> st, body |-> b, count |-> NullCount] :
        st \in Statuses, b \in Bodies \ {"count"}}
    \cup {[transport |-> "ok", status |-> st, body |-> "count", count |-> c] :
             st \in Statuses, c \in Counts}
    \cup {[transport |-> t, status |-> 0, body |-> "not_json", count |-> NullCount] :
             t \in {"ConnectionError", "Timeout"}}

\* None, and a value returned
None == [none |-> TRUE, v |-> 0]

Some(n) == [none |-> FALSE, v |-> n]

\* lines 70-82 on the parsed body: [exc, ret]
ExtractCount(resp) ==
    CASE resp.body = "null" -> [exc |-> "TypeError", ret |-> None]
      [] resp.body = "data_null" -> [exc |-> "TypeError", ret |-> None]
      [] resp.body = "count" ->
            [exc |-> "none", ret |-> IF resp.count.null THEN None ELSE Some(resp.count.v)]
      [] OTHER -> [exc |-> "none", ret |-> None]

\* response.raise_for_status(): a 4xx or a 5xx status raises
RaisesForStatus(status) == 400 <= status /\ status < 600

\* the try body, lines 46-82: [exc, ret]
FetchBody(resp) ==
    IF resp.transport # "ok" THEN [exc |-> resp.transport, ret |-> None]
    ELSE IF RaisesForStatus(resp.status) THEN [exc |-> "HTTPError", ret |-> None]
    ELSE IF resp.body = "not_json" THEN [exc |-> "JSONDecodeError", ret |-> None]
    ELSE ExtractCount(resp)

\* a mutant of CaughtByFetcher: the final `except Exception` is missing
CaughtNamedOnly(exc) ==
    exc \in {"HTTPError", "ConnectionError", "Timeout", "RequestException",
             "JSONDecodeError"}

\* the handlers of lines 84-114: the named request errors, then Exception
CaughtByFetcher(exc) ==
    \/ exc \in {"HTTPError", "ConnectionError", "Timeout", "RequestException",
                "JSONDecodeError"}
    \/ IsException(exc)

FetchReturn(b) ==
    [ret |-> IF b.exc = "none" THEN b.ret ELSE None,
     raised |-> (b.exc # "none" /\ ~CaughtByFetcher(b.exc)),
     exc |-> b.exc]

\* get_online_users(subreddit), the request meeting resp: [ret, raised, exc]
get_online_users(name, resp) == FetchReturn(FetchBody(resp))

\* ============================================================ the store
\* A harness around the store functions: a caller holds one object `arg`,
\* a Store or a legacy list, and calls the functions on it in any order,
\* while the file may also be written verbatim or cut short from outside.

\* the n-th sample written, in chronological order
SampleNo(n) == [timestamp |-> n, online_users |-> 10 + n]

RECURSIVE SumTo(_, _)
SumTo(lens, i) == IF i = 0 THEN 0 ELSE lens[i] + SumTo(lens, i - 1)

\* the Store with keys ks (in insertion order) and lens[i] samples under ks[i]
MakeStore(ks, lens) ==
    PyDict([i \in 1..Len(ks) |->
              [name |-> ks[i],
               points |-> [j \in 1..lens[i] |-> SampleNo(SumTo(lens, i - 1) + j)]]])

KeySeqs ==
    UNION {{ks \in [1..n -> Names] : \A i, j \in 1..n : ks[i] = ks[j] => i = j}
           : n \in 0..MaxKeys}

\* the legacy records: tagged "Foo", "foo" or "bar", or lacking a field
RecordShapes == {"Foo", "foo", "bar", "no_subreddit", "no_timestamp", "no_online_users"}

LegacyRecord(shape, i) ==
    CASE shape = "Foo" -> [subreddit |-> NameFoo, timestamp |-> i, online_users |-> 10 + i]
      [] shape = "foo" -> [subreddit |-> Namefoo, timestamp |-> i, online_users |-> 10 + i]
      [] shape = "bar" -> [subreddit |-> Namebar, timestamp |-> i, online_users |-> 10 + i]
      [] shape = "no_subreddit" -> [timestamp |-> i, online_users |-> 10 + i]
      [] shape = "no_timestamp" -> [subreddit |-> NameFoo, online_users |-> 10 + i]
      [] shape = "no_online_users" -> [subreddit |-> Namefoo, timestamp |-> i]

MakeList(shapes) == PyList([i \in 1..Len(shapes) |-> LegacyRecord(shapes[i], i)])

ShapeSeqs == UNION {[1..n -> RecordShapes] : n \in 0..MaxLegacy}

\* the poll loops' variables while the store harness runs, and the reverse
PollIdle ==
    /\ mode = "none" /\ subreddit = <<>> /\ pc = "none"
    /\ tracking_data = EmptyDict /\ load_data = EmptyDict /\ loaded = EmptyDict
    /\ online_users = None /\ save_ret = "none" /\ ticks = 0 /\ fetched = <<>>
    /\ stop_event = FALSE /\ update_queue = <<>> /\ data_points = 0
    /\ ui_pc = "idle" /\ ui_data = EmptyDict /\ save_data = EmptyDict

\* the dashboard session's variables before the script has run
NoSession ==
    [tracking_active |-> FALSE, latest_data |-> 0, error_message |-> FALSE,
     tracking_history |-> <<>>, update_queue |-> 0, stop_event |-> 0]

\* no call of process_queue_updates is under way
NoDrain == [pc |-> "idle", queue |-> 0, mark |-> 0]

DashIdle ==
    /\ session = NoSession /\ threads = <<>> /\ events = <<>> /\ queues = <<>>
    /\ pq = NoDrain
    /\ notice = "none"

NoResponse == [transport |-> "none", status |-> 0, body |-> "not_json", count |-> NullCount]

NoCall ==
    [op |-> "none", ret |-> FALSE, raised |-> FALSE, exc |-> "none", io |-> "none",
     after_save |-> FALSE, after_write |-> FALSE, retried |-> FALSE, since_empty |-> 0]

StoreInit ==
    /\ file = MissingFile
    /\ \/ \E ks \in KeySeqs : \E lens \in [1..Len(ks) -> 0..MaxPoints] :
             arg = MakeStore(ks, lens)
       \/ \E shapes \in ShapeSeqs : arg = MakeList(shapes)
    /\ appended = 0
    /\ retry = "clean"
    /\ call = NoCall
    /\ PollIdle
    /\ DashIdle
    /\ response = NoResponse

\* whether the call just made was a save that returned True
SavedOk == call.op = "save" /\ call.ret

\* how far the calls have come in the sequence: a load that found no file or an
\* empty one (1), then a save that returned True (2), then a load (3)
SinceEmpty(op, r) ==
    IF op = "load" /\ (~file.exists \/ file.bytes = <<>>) THEN 1
    ELSE IF op = "save" /\ r.ret /\ call.since_empty = 1 THEN 2
    ELSE IF op = "load" /\ call.since_empty = 2 THEN 3
    ELSE 0

\* the harness after a call that returned r: [ret, raised, exc, file, arg];
\* io is the outcome the file system gave a save
Returned(op, io, r) ==
    /\ call' = [op |-> op, ret |-> r.ret, raised |-> r.raised, exc |-> r.exc, io |-> io,
                after_save |-> SavedOk,
                after_write |-> (call.op = "write"),
                retried |-> (op = "save" /\ retry = "failed_appended"),
                since_empty |-> SinceEmpty(op, r)]
    /\ file' = r.file
    /\ arg' = r.arg
    /\ retry' = IF op # "save" THEN retry ELSE IF r.ret THEN "clean"
                 ELSE IF retry = "clean" THEN "failed" ELSE retry
    /\ UNCHANGED <<appended, PollVars, response, DashVars>>

NormalizeReturn(n) ==
    [ret |-> n.ret, raised |-> FALSE, exc |-> "none", file |-> file, arg |-> n.arg]

\* normalize_subreddit_names(arg)
CallNormalize ==
    /\ Returned("normalize", "none", NormalizeReturn(NormalizeCall(arg)))

MigrateReturn(m) ==
    [ret |-> m.ret, raised |-> (m.exc # "none"), exc |-> m.exc, file |-> file, arg |-> arg]

\* migrate_data_format(arg), on a list
CallMigrate ==
    /\ arg.kind = "list"
    /\ Returned("migrate", "none", MigrateReturn(migrate_data_format(arg)))

\* save_data_to_json(arg)
CallSave ==
    /\ \E io \in IOOutcomes : Returned("save", io, save_data_to_json(arg, file, io))

LoadCallReturn(l) ==
    [ret |-> l.ret, raised |-> l.raised, exc |-> l.exc, file |-> l.file, arg |-> arg]

\* load_data_from_json()
CallLoad ==
    /\ Returned("load", "none", LoadCallReturn(load_data_from_json(file)))

\* the number of samples in a Store
RECURSIVE CountPoints(_, _)
CountPoints(items, i) ==
    IF i = 0 THEN 0 ELSE Len(items[i].points) + CountPoints(items, i - 1)

\* arg[subreddit].append(data_point), as the poll loops do, the target being
\* the first key of arg
AppendSample ==
    /\ arg.kind = "dict" /\ Len(arg.items) > 0
    /\ appended < MaxAppends
    /\ arg' = PyDict([arg.items EXCEPT ![1].points =
                        Append(@, SampleNo(CountPoints(arg.items, Len(arg.items)) + 1))])
    /\ appended' = appended + 1
    /\ retry' = IF retry = "failed" THEN "failed_appended" ELSE retry
    /\ call' = [NoCall EXCEPT !.op = "append"]
    /\ UNCHANGED <<file, PollVars, response, DashVars>>

\* another program leaves arg in the file as it is (a legacy or unnormalized file)
WriteVerbatim ==
    /\ file' = WriteAt0(OpenW(file), Dump(arg))
    /\ call' = [NoCall EXCEPT !.op = "write"]
    /\ UNCHANGED <<arg, appended, retry, PollVars, response, DashVars>>

\* the file is cut short from outside (a crash in mid-write), or emptied
CutShort ==
    /\ file.exists /\ Len(file.bytes) > 0
    /\ \E n \in {0, Len(file.bytes) \div 2} :
          file' = [exists |-> TRUE, bytes |-> SubSeq(file.bytes, 1, n)]
    /\ call' = [NoCall EXCEPT !.op = "cut"]
    /\ UNCHANGED <<arg, appended, retry, PollVars, response, DashVars>>

StoreNext ==
    \/ CallNormalize
    \/ CallMigrate
    \/ CallSave
    \/ CallLoad
    \/ AppendSample
    \/ WriteVerbatim
    \/ CutShort

SpecStore == StoreInit /\ [][StoreNext]_vars

\* ========================================================== the fetcher
\* One caller of get_online_users: each step is one call, for the community
\* entered, meeting any of the responses.
FetchInit ==
    /\ file = MissingFile /\ arg = EmptyDict /\ appended = 0 /\ retry = "clean"
    /\ call = NoCall
    /\ mode = "none" /\ pc = "none"
    /\ subreddit \in Names
    /\ tracking_data = EmptyDict /\ load_data = EmptyDict /\ loaded = EmptyDict
    /\ online_users = None /\ save_ret = "none" /\ ticks = 0 /\ fetched = <<>>
    /\ stop_event = FALSE /\ update_queue = <<>> /\ data_points = 0
    /\ ui_pc = "idle" /\ ui_data = EmptyDict /\ save_data = EmptyDict
    /\ response = NoResponse
    /\ DashIdle

FetchReturned(resp, r) ==
    /\ response' = resp
    /\ online_users' = r.ret
    /\ call' = [NoCall EXCEPT !.op = "fetch", !.raised = r.raised, !.exc = r.exc]

\* get_online_users(subreddit)
CallFetch ==
    /\ \E resp \in Responses : FetchReturned(resp, get_online_users(subreddit, resp))
    /\ UNCHANGED <<file, arg, appended, retry, mode, subreddit, pc, tracking_data,
                   load_data, save_data, loaded, save_ret, ticks, fetched, stop_event,
                   update_queue, data_points, ui_pc, ui_data, DashVars>>

\* another community is entered
EnterName ==
    /\ \E name \in Names \ {subreddit} : subreddit' = name
    /\ UNCHANGED <<StoreVars, mode, pc, tracking_data, load_data, save_data, loaded, online_users,
                   save_ret, ticks, fetched, stop_event, update_queue, data_points,
                   ui_pc, ui_data, response, DashVars>>

FetchNext ==
    \/ CallFetch
    \/ EnterName

SpecFetch == FetchInit /\ [][FetchNext]_vars


\* ====================================================== the poll loops
\* One run of collect mode: main() of app.py (mode "cli"), or the dashboard's
\* poller thread track_subreddit (mode "dash") beside the UI thread, which
\* calls load_data_from_json() on each rerun of the script.  The interval
\* entered is a duration (finite, not negative), so time.sleep returns.

\* the files the run can find
StartFiles ==
    {MissingFile,
     WriteAt0(MissingFile, Dump(MakeStore(<<Namefoo>>, <<1>>))),
     WriteAt0(MissingFile, Dump(MakeStore(<<NameFoo, Namefoo>>, <<1, 1>>)))}

\* the responses the requests of a run can meet
PollResponses ==
    {resp \in Responses :
        /\ resp.transport = "ok"
        /\ \/ resp.status = 200 /\ resp.body = "count" /\ resp.count \in {Count(10), Count(12)}
           \/ resp.status = 404 /\ resp.body = "no_data"
           \/ resp.status = 200 /\ resp.body = "data_null"}

\* where the while loop is entered: `while True`, `while not stop_event.is_set()`
LoopStart == IF mode = "cli" THEN "fetch" ELSE "check"

Msg(action, data) == [action |-> action, data |-> data]

\* update_queue.put(msg), by the poller thread only
Put(q, msg) == IF mode = "dash" THEN Append(q, msg) ELSE q

\* an exception escapes the loop body: main() does not catch it; the poller's
\* `except Exception` reports it on the queue and the thread ends
Escaped ==
    /\ pc' = IF mode = "cli" THEN "crashed" ELSE "done"
    /\ update_queue' = Put(update_queue, Msg("error", 0))

\* if subreddit not in tracking_data: tracking_data[subreddit] = []
WithEntry(d, name) ==
    IF HasKey(d.items, name) THEN d
    ELSE PyDict(Append(d.items, [name |-> name, points |-> <<>>]))

PollInit ==
    /\ arg = EmptyDict /\ appended = 0 /\ retry = "clean" /\ call = NoCall
    /\ response = NoResponse
    /\ mode \in {"cli", "dash"}
    /\ subreddit \in {NameFoo, Namefoo}
    /\ file \in StartFiles
    /\ pc = IF mode = "cli" THEN "load" ELSE "begin"
    /\ tracking_data = EmptyDict /\ load_data = EmptyDict /\ loaded = EmptyDict
    /\ online_users = None /\ save_ret = "none" /\ ticks = 0 /\ fetched = <<>>
    /\ stop_event = FALSE /\ update_queue = <<>> /\ data_points = 0
    /\ ui_pc = "idle" /\ ui_data = EmptyDict /\ save_data = EmptyDict
    /\ DashIdle

\* the loop starts with the Store d
Begun(d) ==
    /\ tracking_data' = d
    /\ loaded' = d
    /\ pc' = LoopStart

\* update_queue.put(('add_history', history_entry))
PBegin ==
    /\ pc = "begin"
    /\ update_queue' = Put(update_queue, Msg("add_history", 0))
    /\ pc' = "load"
    /\ UNCHANGED <<StoreVars, mode, subreddit, tracking_data, load_data, save_data, loaded,
                   online_users, save_ret, ticks, fetched, stop_event, data_points,
                   ui_pc, ui_data, response, DashVars>>

\* load_data_from_json() up to its write-back, for what the read gave
PLoadRead(r) ==
    IF r.exc # "none"
    THEN Begun(WithEntry(EmptyDict, subreddit)) /\ UNCHANGED load_data
    ELSE /\ load_data' = r.data
         /\ pc' = "load_open"
         /\ UNCHANGED <<tracking_data, loaded>>

\* tracking_data = load_data_from_json(): exists, open 'r', json.load,
\* migrate, normalize
PLoad ==
    /\ pc = "load"
    /\ IF file.exists
       THEN PLoadRead(LoadRead(file))
       ELSE Begun(WithEntry(EmptyDict, subreddit)) /\ UNCHANGED load_data
    /\ UNCHANGED <<StoreVars, mode, subreddit, save_data, online_users, save_ret, ticks, fetched,
                   stop_event, update_queue, data_points, ui_pc, ui_data, response, DashVars>>

\* ... its open(filename, 'w')
PLoadOpen ==
    /\ pc = "load_open"
    /\ file' = OpenW(file)
    /\ pc' = "load_dump"
    /\ UNCHANGED <<arg, appended, retry, call, mode, subreddit, tracking_data,
                   load_data, save_data, loaded, online_users, save_ret, ticks, fetched,
                   stop_event, update_queue, data_points, ui_pc, ui_data, response, DashVars>>

\* ... its json.dump and return, and the entry for the community
PLoadDump ==
    /\ pc = "load_dump"
    /\ file' = WriteAt0(file, Dump(load_data))
    /\ Begun(WithEntry(load_data, subreddit))
    /\ UNCHANGED <<arg, appended, retry, call, mode, subreddit, load_data, save_data,
                   online_users, save_ret, ticks, fetched, stop_event, update_queue,
                   data_points, ui_pc, ui_data, response, DashVars>>

\* a mutant of PCheck: `while True`, the event is never read
PCheckNever ==
    /\ pc = "check"
    /\ pc' = "fetch"
    /\ UNCHANGED <<StoreVars, mode, subreddit, tracking_data, load_data, save_data, loaded,
                   online_users, save_ret, ticks, fetched, stop_event, data_points,
                   ui_pc, ui_data, response, update_queue, DashVars>>

\* while not stop_event.is_set(), and what follows the loop
PCheck ==
    /\ pc = "check"
    /\ IF stop_event
       THEN /\ update_queue' = Put(update_queue, Msg("update_status", 0))
            /\ pc' = "done"
       ELSE /\ pc' = "fetch"
            /\ UNCHANGED update_queue
    /\ UNCHANGED <<StoreVars, mode, subreddit, tracking_data, load_data, save_data, loaded,
                   online_users, save_ret, ticks, fetched, stop_event, data_points,
                   ui_pc, ui_data, response, DashVars>>

\* the data_point of this tick: datetime.now() is later at each tick
DataPointAt(tick, value) == [timestamp |-> 100 + tick, online_users |-> value]

\* tracking_data[subreddit].append(data_point)
Appended(d, name, data_point) ==
    PyDict(SetItem(d.items, name, Append(Series(d, name), data_point)))

\* a mutant of PFetched: the `if online_users is not None` is missing
PFetchedNoCheck(r) ==
    IF r.raised
    THEN Escaped /\ UNCHANGED <<tracking_data, online_users, fetched>>
    ELSE /\ online_users' = r.ret
         /\ fetched' = Append(fetched, r.ret)
         /\ tracking_data' = Appended(tracking_data, subreddit,
                                      DataPointAt(ticks + 1, r.ret.v))
         /\ pc' = "save_open"
         /\ UNCHANGED update_queue

\* a mutant of PFetched: save_data_to_json is called at every tick, outside
\* the `if`
PFetchedSaveAlways(r) ==
    IF r.raised
    THEN Escaped /\ UNCHANGED <<tracking_data, online_users, fetched>>
    ELSE /\ online_users' = r.ret
         /\ fetched' = Append(fetched, r.ret)
         /\ tracking_data' = IF r.ret.none THEN tracking_data
                             ELSE Appended(tracking_data, subreddit,
                                           DataPointAt(ticks + 1, r.ret.v))
         /\ pc' = "save_open"
         /\ UNCHANGED update_queue

\* a mutant of PFetched: a request that gave no value is made again at once
PFetchedRetry(r) ==
    IF r.raised
    THEN Escaped /\ UNCHANGED <<tracking_data, online_users, fetched>>
    ELSE /\ online_users' = r.ret
         /\ fetched' = Append(fetched, r.ret)
         /\ tracking_data' = IF r.ret.none THEN tracking_data
                             ELSE Appended(tracking_data, subreddit,
                                           DataPointAt(ticks + 1, r.ret.v))
         /\ pc' = IF r.ret.none THEN "fetch" ELSE "save_open"
         /\ UNCHANGED update_queue

\* online_users = get_online_users(subreddit) returned r, and the `if`
PFetched(r) ==
    IF r.raised
    THEN Escaped /\ UNCHANGED <<tracking_data, online_users, fetched>>
    ELSE /\ online_users' = r.ret
         /\ fetched' = Append(fetched, r.ret)
         /\ tracking_data' = IF r.ret.none THEN tracking_data
                             ELSE Appended(tracking_data, subreddit,
                                           DataPointAt(ticks + 1, r.ret.v))
         /\ pc' = IF r.ret.none THEN "sleep" ELSE "save_open"
         /\ UNCHANGED update_queue

PFetch ==
    /\ pc = "fetch"
    /\ ticks < MaxTicks
    /\ ticks' = ticks + 1
    /\ \E resp \in PollResponses : PFetched(get_online_users(subreddit, resp))
    /\ UNCHANGED <<StoreVars, mode, subreddit, load_data, save_data, loaded, save_ret,
                   stop_event, data_points, ui_pc, ui_data, response, DashVars>>

\* save_data_to_json(tracking_data) has returned ret: in the loop the poller
\* thread reports the sample and the loop goes to its sleep; after the loop
\* (the handler of KeyboardInterrupt) the run ends
Saved(ret) ==
    /\ save_ret' = ret
    /\ save_data' = EmptyDict
    /\ IF pc \in {"final_open", "final_dump"}
       THEN /\ pc' = "done"
            /\ UNCHANGED <<update_queue, data_points>>
       ELSE /\ pc' = "sleep"
            /\ data_points' = IF mode = "dash" THEN data_points + 1 ELSE data_points
            /\ update_queue' = Put(Put(update_queue,
                                       Msg("update_latest", online_users.v)),
                                   Msg("update_count", data_points + 1))

\* the save ends with the error exc: the handler of line 190 returns False
SaveEnded(exc) ==
    IF exc = "none" THEN Saved("ok")
    ELSE IF IsException(exc) THEN Saved("failed")
    ELSE Escaped /\ save_data' = EmptyDict /\ UNCHANGED <<save_ret, data_points>>

\* save_data_to_json(tracking_data) up to open(filename, 'w')
PSaveOpen ==
    /\ pc \in {"save_open", "final_open"}
    /\ \E io \in {"ok", "open_fails"} :
          IF io = "open_fails"
          THEN SaveEnded("OSError") /\ UNCHANGED file
          ELSE /\ save_data' = normalize_subreddit_names(tracking_data)
               /\ file' = OpenW(file)
               /\ pc' = IF pc = "save_open" THEN "save_dump" ELSE "final_dump"
               /\ UNCHANGED <<save_ret, update_queue, data_points>>
    /\ UNCHANGED <<arg, appended, retry, call, mode, subreddit, tracking_data,
                   load_data, loaded, online_users, ticks, fetched, stop_event,
                   ui_pc, ui_data, response, DashVars>>

\* ... its json.dump(data, f), and its return
PSaveDump ==
    /\ pc \in {"save_dump", "final_dump"}
    /\ \E io \in {"ok", "dump_fails"} :
          /\ file' = DumpStep(Dump(save_data), file, io)
          /\ SaveEnded(IF io = "ok" THEN "none" ELSE "OSError")
    /\ UNCHANGED <<arg, appended, retry, call, mode, subreddit, tracking_data,
                   load_data, loaded, online_users, ticks, fetched, stop_event,
                   ui_pc, ui_data, response, DashVars>>

\* time.sleep(interval) returns
PSleep ==
    /\ pc = "sleep"
    /\ pc' = LoopStart
    /\ UNCHANGED <<StoreVars, mode, subreddit, tracking_data, load_data, save_data, loaded,
                   online_users, save_ret, ticks, fetched, stop_event, update_queue,
                   data_points, ui_pc, ui_data, response, DashVars>>

\* Ctrl+C while the loop of main() runs: KeyboardInterrupt reaches the handler
\* of line 115, which saves
Interrupt ==
    /\ mode = "cli"
    /\ pc \in {"fetch", "save_open", "save_dump", "sleep"}
    /\ pc' = "final_open"
    /\ save_data' = EmptyDict
    /\ UNCHANGED <<StoreVars, mode, subreddit, tracking_data, load_data, loaded,
                   online_users, save_ret, ticks, fetched, stop_event, update_queue,
                   data_points, ui_pc, ui_data, response, DashVars>>

\* stop_tracking(): st.session_state.stop_event.set()
StopTracking ==
    /\ mode = "dash"
    /\ ~stop_event
    /\ stop_event' = TRUE
    /\ UNCHANGED <<StoreVars, mode, subreddit, pc, tracking_data, load_data, save_data, loaded,
                   online_users, save_ret, ticks, fetched, update_queue, data_points,
                   ui_pc, ui_data, response, DashVars>>

\* the UI thread's load_data_from_json() up to its write-back, for what the
\* read gave: an error returns {} and leaves the file
UiLoadRead(r) ==
    IF r.exc # "none"
    THEN UNCHANGED <<ui_pc, ui_data>>
    ELSE /\ ui_data' = r.data
         /\ ui_pc' = "open"

\* a rerun of the script reaches load_data_from_json()
UiLoad ==
    /\ mode = "dash"
    /\ ui_pc = "idle"
    /\ IF file.exists THEN UiLoadRead(LoadRead(file)) ELSE UNCHANGED <<ui_pc, ui_data>>
    /\ UNCHANGED <<StoreVars, mode, subreddit, pc, tracking_data, load_data, save_data, loaded,
                   online_users, save_ret, ticks, fetched, stop_event, update_queue,
                   data_points, response, DashVars>>

\* ... its open(filename, 'w')
UiOpen ==
    /\ ui_pc = "open"
    /\ file' = OpenW(file)
    /\ ui_pc' = "dump"
    /\ UNCHANGED <<arg, appended, retry, call, mode, subreddit, pc, tracking_data,
                   load_data, save_data, loaded, online_users, save_ret, ticks, fetched,
                   stop_event, update_queue, data_points, ui_data, response, DashVars>>

\* ... its json.dump and return
UiDump ==
    /\ ui_pc = "dump"
    /\ file' = WriteAt0(file, Dump(ui_data))
    /\ ui_pc' = "idle"
    /\ UNCHANGED <<arg, appended, retry, call, mode, subreddit, pc, tracking_data,
                   load_data, save_data, loaded, online_users, save_ret, ticks, fetched,
                   stop_event, update_queue, data_points, ui_data, response, DashVars>>

PollNext ==
    \/ PBegin
    \/ PLoad
    \/ PLoadOpen
    \/ PLoadDump
    \/ PCheck
    \/ PFetch
    \/ PSaveOpen
    \/ PSaveDump
    \/ PSleep
    \/ Interrupt
    \/ StopTracking
    \/ UiLoad
    \/ UiOpen
    \/ UiDump

SpecPoll == PollInit /\ [][PollNext]_vars

\* the steps of the loop
Loop ==
    \/ PCheck \/ PFetch \/ PSaveOpen \/ PSaveDump \/ PSleep

\* the loop keeps running: its requests, its saves and its sleeps return
PollFairness == WF_vars(Loop)

\* the dashboard's poller and the Stop button alone (the UI thread's loads
\* touch neither the poller's variables nor the event), the poller running on
StopInit == PollInit /\ mode = "dash"

StopNext ==
    \/ PBegin
    \/ PLoad
    \/ PLoadOpen
    \/ PLoadDump
    \/ PCheck
    \/ PFetch
    \/ PSaveOpen
    \/ PSaveDump
    \/ PSleep
    \/ StopTracking

SpecStop == StopInit /\ [][StopNext]_vars /\ PollFairness

\* ========================================================== the dashboard
\* One session of streamlit_app.py: the UI thread's actions on
\* st.session_state, the poller threads it has started, each with the Event and
\* the Queue it was handed, and the drain of the current queue at each rerun.

\* the length of one session: its Start presses and its pollers' requests,
\* counted together
MaxWork == 3

\* queue.Queue(): log is every message ever put, head the number taken
NewQueue == [log |-> <<>>, head |-> 0]

\* queue_obj.empty()
Empty(q) == q.head = Len(q.log)

\* update_queue.put(msg) on the queue numbered n
PutOn(qs, n, msg) == [qs EXCEPT ![n].log = Append(@, msg)]

\* st.session_state.latest_data = None
NoData == [timestamp |-> 0, online_users |-> 0]

\* the session state at the first run of the script
FirstSession ==
    [tracking_active |-> FALSE, latest_data |-> NoData, error_message |-> FALSE,
     tracking_history |-> <<>>, update_queue |-> 1, stop_event |-> 0]

DashInit ==
    /\ arg = EmptyDict /\ appended = 0 /\ retry = "clean" /\ call = NoCall
    /\ response = NoResponse
    /\ mode = "dash" /\ pc = "none"
    /\ subreddit \in {<<>>, NameFoo}
    /\ file = MissingFile
    /\ tracking_data = EmptyDict /\ load_data = EmptyDict /\ loaded = EmptyDict
    /\ online_users = None /\ save_ret = "none" /\ ticks = 0 /\ fetched = <<>>
    /\ stop_event = FALSE /\ update_queue = <<>> /\ data_points = 0
    /\ ui_pc = "idle" /\ ui_data = EmptyDict /\ save_data = EmptyDict
    /\ session = FirstSession
    /\ threads = <<>> /\ events = <<>> /\ queues = <<NewQueue>>
    /\ pq = NoDrain
    /\ notice = "none"

\* what no step of the dashboard touches
DashFrame ==
    UNCHANGED <<arg, appended, retry, call, mode, subreddit, pc, tracking_data,
                load_data, save_data, loaded, online_users, save_ret, fetched,
                stop_event, update_queue, data_points, ui_pc, ui_data, response>>

\* threading.Thread(target=track_subreddit, args=(..., stop_event, update_queue))
NewThread(event, queue) ==
    [pc |-> "begin", stop_event |-> event, update_queue |-> queue,
     tracking_data |-> EmptyDict, data_points |-> 0]

\* the entry start_tracking appends to the history
NewEntry(history) == [id |-> Len(history) + 1, status |-> "active", data_points |-> 0]

\* lines 121-156: the queue, the event and the thread are made and started
Started ==
    /\ Len(threads) + ticks < MaxWork
    /\ queues' = Append(queues, NewQueue)
    /\ events' = Append(events, FALSE)
    /\ threads' = Append(threads, NewThread(Len(events) + 1, Len(queues) + 1))
    /\ session' = [session EXCEPT !.error_message = FALSE,
                                  !.update_queue = Len(queues) + 1,
                                  !.stop_event = Len(events) + 1,
                                  !.tracking_active = TRUE,
                                  !.tracking_history = Append(@, NewEntry(@))]
    /\ notice' = "none"

\* a button's handler returns at once, with the notice n
Refused(n) ==
    /\ notice' = n
    /\ UNCHANGED <<session, threads, events, queues>>

\* a mutant of start_tracking: the test of tracking_active is missing
StartUnguarded ==
    /\ pq.pc = "idle"
    /\ IF subreddit = <<>> THEN Refused("error") ELSE Started
    /\ UNCHANGED <<file, ticks, pq>>
    /\ DashFrame

\* the Start button
start_tracking ==
    /\ pq.pc = "idle"
    /\ IF subreddit = <<>> THEN Refused("error")
       ELSE IF session.tracking_active THEN Refused("warning")
       ELSE Started
    /\ UNCHANGED <<file, ticks, pq>>
    /\ DashFrame

\* lines 168-172: the last entry, if it is 'active', becomes 'stopped'
MarkStopped(history) ==
    IF history # <<>> /\ history[Len(history)].status = "active"
    THEN [history EXCEPT ![Len(history)].status = "stopped"]
    ELSE history

\* lines 164-177: the event is set and the session marked stopped
Stopped ==
    /\ events' = IF session.stop_event # 0
                 THEN [events EXCEPT ![session.stop_event] = TRUE]
                 ELSE events
    /\ session' = [session EXCEPT !.tracking_history = MarkStopped(@),
                                  !.tracking_active = FALSE]
    /\ notice' = "success"
    /\ UNCHANGED <<threads, queues>>

\* the Stop button
stop_tracking ==
    /\ pq.pc = "idle"
    /\ IF ~session.tracking_active THEN Refused("info") ELSE Stopped
    /\ UNCHANGED <<file, ticks, pq>>
    /\ DashFrame

\* the Clear History button
clear_history ==
    /\ pq.pc = "idle"
    /\ session.tracking_history # <<>>
    /\ session' = [session EXCEPT !.tracking_history = <<>>]
    /\ notice' = "none"
    /\ UNCHANGED <<file, ticks, pq, threads, events, queues>>
    /\ DashFrame

\* lines 188-203: one message applied to the session state
Applied(s, msg) ==
    IF msg.action = "update_latest"
    THEN [s EXCEPT !.latest_data = msg.data]
    ELSE IF msg.action = "update_count" /\ s.tracking_history # <<>>
    THEN [s EXCEPT !.tracking_history[Len(s.tracking_history)].data_points = msg.data]
    ELSE IF msg.action = "update_status" /\ s.tracking_history # <<>>
    THEN [s EXCEPT !.tracking_history[Len(s.tracking_history)].status = msg.data]
    ELSE IF msg.action = "error"
    THEN [s EXCEPT !.error_message = TRUE,
                   !.tracking_history = IF @ # <<>>
                                        THEN [@ EXCEPT ![Len(@)].status = "error"]
                                        ELSE @]
    ELSE s

\* process_queue_updates() is called: queue_obj = st.session_state.update_queue
PqBegin ==
    /\ pq.pc = "idle"
    /\ pq' = [pc |-> "drain", queue |-> session.update_queue,
              mark |-> Len(queues[session.update_queue].log)]
    /\ notice' = "none"
    /\ UNCHANGED <<file, ticks, session, threads, events, queues>>
    /\ DashFrame

\* a mutant of PqGet: `if not queue_obj.empty()` for the `while`, one message
\* a call
PqGetOnce ==
    /\ pq.pc = "drain"
    /\ ~Empty(queues[pq.queue])
    /\ queues' = [queues EXCEPT ![pq.queue].head = @ + 1]
    /\ session' = Applied(session, queues[pq.queue].log[queues[pq.queue].head + 1])
    /\ pq' = NoDrain
    /\ UNCHANGED <<file, ticks, threads, events, notice>>
    /\ DashFrame

\* while not queue_obj.empty(): action, data = queue_obj.get_nowait(); ...
PqGet ==
    /\ pq.pc = "drain"
    /\ ~Empty(queues[pq.queue])
    /\ queues' = [queues EXCEPT ![pq.queue].head = @ + 1]
    /\ session' = Applied(session, queues[pq.queue].log[queues[pq.queue].head + 1])
    /\ UNCHANGED <<file, ticks, pq, threads, events, notice>>
    /\ DashFrame

\* the `while` test finds the queue empty: the call returns
PqEnd ==
    /\ pq.pc = "drain"
    /\ Empty(queues[pq.queue])
    /\ pq' = NoDrain
    /\ UNCHANGED <<file, ticks, session, threads, events, queues, notice>>
    /\ DashFrame

\* the poller's `except Exception`: the error goes on its queue, the thread ends
TEscaped(i) ==
    /\ threads' = [threads EXCEPT ![i].pc = "done"]
    /\ queues' = PutOn(queues, threads[i].update_queue, Msg("error", 0))

TLoaded(i, r) ==
    /\ file' = r.file
    /\ threads' = [threads EXCEPT ![i].pc = IF r.raised THEN "done" ELSE "check",
                                  ![i].tracking_data = WithEntry(r.ret, subreddit)]
    /\ queues' = IF r.raised
                 THEN PutOn(PutOn(queues, threads[i].update_queue, Msg("add_history", 0)),
                            threads[i].update_queue, Msg("error", 0))
                 ELSE PutOn(queues, threads[i].update_queue, Msg("add_history", 0))

\* lines 49-68: update_queue.put(('add_history', history_entry)), then
\* tracking_data = load_data_from_json(), and the entry
TBegin(i) ==
    /\ threads[i].pc = "begin"
    /\ TLoaded(i, load_data_from_json(file))
    /\ UNCHANGED <<ticks, session, events, pq, notice>>
    /\ DashFrame

\* the sleep, if any, returns; while not stop_event.is_set(), and lines 99-105
\* after the loop
TCheck(i) ==
    /\ threads[i].pc = "check"
    /\ IF events[threads[i].stop_event]
       THEN /\ threads' = [threads EXCEPT ![i].pc = "done"]
            /\ queues' = PutOn(queues, threads[i].update_queue,
                               Msg("update_status", "completed"))
       ELSE /\ threads' = [threads EXCEPT ![i].pc = "fetch"]
            /\ UNCHANGED queues
    /\ UNCHANGED <<file, ticks, session, events, pq, notice>>
    /\ DashFrame

\* the responses the requests of a session meet: a count, or a 404
DashResponses ==
    {resp \in PollResponses : resp.body = "no_data" \/ resp.count = Count(10)}

\* the payload of 'update_latest'
Latest(timestamp, value) == [timestamp |-> timestamp, online_users |-> value]

\* lines 75-89: the sample is appended, saved and reported
TSample(i, d, s) ==
    /\ file' = s.file
    /\ IF s.raised
       THEN TEscaped(i)
       ELSE /\ threads' = [threads EXCEPT ![i].pc = "count", ![i].tracking_data = d]
            /\ queues' = PutOn(queues, threads[i].update_queue,
                               Msg("update_latest", Latest(100 + ticks + 1, Series(d, subreddit)[Len(Series(d, subreddit))].online_users)))

\* a mutant of TFetched: the thread sets st.session_state.latest_data itself
TFetchedDirect(i, r, io) ==
    IF r.raised
    THEN TEscaped(i) /\ UNCHANGED <<file, session>>
    ELSE IF r.ret = None
    THEN /\ threads' = [threads EXCEPT ![i].pc = "check"]
         /\ UNCHANGED <<file, queues, session>>
    ELSE /\ TSample(i, Appended(threads[i].tracking_data, subreddit,
                                DataPointAt(ticks + 1, r.ret.v)),
                    save_data_to_json(Appended(threads[i].tracking_data, subreddit,
                                               DataPointAt(ticks + 1, r.ret.v)),
                                      file, io))
         /\ session' = [session EXCEPT !.latest_data = Latest(100 + ticks + 1, r.ret.v)]

\* lines 72-89 once the request has returned r
TFetched(i, r, io) ==
    IF r.raised
    THEN TEscaped(i) /\ UNCHANGED <<file, session>>
    ELSE IF r.ret = None
    THEN /\ threads' = [threads EXCEPT ![i].pc = "check"]
         /\ UNCHANGED <<file, queues, session>>
    ELSE /\ TSample(i, Appended(threads[i].tracking_data, subreddit,
                                DataPointAt(ticks + 1, r.ret.v)),
                    save_data_to_json(Appended(threads[i].tracking_data, subreddit,
                                               DataPointAt(ticks + 1, r.ret.v)),
                                      file, io))
         /\ UNCHANGED session

\* one turn of the loop up to the first put: the request, the append, the save
TFetch(i) ==
    /\ threads[i].pc = "fetch"
    /\ Len(threads) + ticks < MaxWork
    /\ ticks' = ticks + 1
    /\ \E resp \in DashResponses : \E io \in IOOutcomes :
          TFetched(i, get_online_users(subreddit, resp), io)
    /\ UNCHANGED <<events, pq, notice>>
    /\ DashFrame

\* lines 92-93: the count, and update_queue.put(('update_count', ...))
TCount(i) ==
    /\ threads[i].pc = "count"
    /\ threads' = [threads EXCEPT ![i].pc = "check", ![i].data_points = @ + 1]
    /\ queues' = PutOn(queues, threads[i].update_queue,
                       Msg("update_count", threads[i].data_points + 1))
    /\ UNCHANGED <<file, ticks, session, events, pq, notice>>
    /\ DashFrame

DashNext ==
    \/ start_tracking
    \/ stop_tracking
    \/ clear_history
    \/ PqBegin
    \/ PqGet
    \/ PqEnd
    \/ \E i \in 1..Len(threads) : TBegin(i)
    \/ \E i \in 1..Len(threads) : TCheck(i)
    \/ \E i \in 1..Len(threads) : TFetch(i)
    \/ \E i \in 1..Len(threads) : TCount(i)

SpecDash == DashInit /\ [][DashNext]_vars

\* ===================================================== claims on the store
AllLowerKeys(d) == \A i \in 1..Len(d.items) : Lower(d.items[i].name) = d.items[i].name

\* a Store with two keys that collide after lowercasing, each with samples
HasCollision(d) ==
    \E i, j \in 1..Len(d.items) :
       /\ i # j
       /\ Lower(d.items[i].name) = Lower(d.items[j].name)
       /\ Len(d.items[i].points) > 0
       /\ Len(d.items[j].points) > 0

\* C1: a load that directly follows a successful save of the Store arg returns
\* exactly normalize_subreddit_names(arg), and raises nothing.
C1_RoundTrip ==
    (call.op = "load" /\ call.after_save /\ arg.kind = "dict")
        => (~call.raised /\ call.ret = normalize_subreddit_names(arg))

C1_Witness ==
    /\ call.op = "load" /\ call.after_save
    /\ arg.kind = "dict" /\ HasCollision(arg)
    /\ Len(call.ret.items) < Len(arg.items)

\* C2: normalizing the result of a normalization changes nothing, and
\* normalizing a Store whose keys are all lowercase returns an equal Store.
C2_NormalizeIdempotent ==
    (call.op = "normalize" /\ arg.kind = "dict")
        => /\ normalize_subreddit_names(call.ret) = call.ret
           /\ AllLowerKeys(arg) => call.ret = arg

C2_Witness ==
    /\ call.op = "normalize" /\ arg.kind = "dict" /\ HasCollision(arg)
    /\ Len(call.ret.items) = 2 /\ Len(arg.items) = 3

WellFormedList(l) ==
    \A i \in 1..Len(l.items) :
       DOMAIN l.items[i] = {"subreddit", "timestamp", "online_users"}

\* the records tagged k after lowercasing, in list order, without the tag
RecordsOf(l, k) ==
    LET sel == SelectSeq(l.items, LAMBDA r : Lower(r["subreddit"]) = k)
    IN  [i \in 1..Len(sel) |->
           [timestamp |-> sel[i]["timestamp"], online_users |-> sel[i]["online_users"]]]

\* C3: migrate_data_format of a flat list of full records returns a mapping whose
\* keys are exactly the lowercased subreddit values of the list, each with the
\* subsequence of its records, in list order, reduced to timestamp and online_users.
C3_Migration ==
    (call.op = "migrate" /\ WellFormedList(arg))
        => /\ ~call.raised
           /\ call.ret.kind = "dict"
           /\ KeysOf(call.ret) =
                 {Lower(arg.items[i]["subreddit"]) : i \in 1..Len(arg.items)}
           /\ Cardinality(KeysOf(call.ret)) = Len(call.ret.items)
           /\ \A i \in 1..Len(call.ret.items) :
                 call.ret.items[i].points = RecordsOf(arg, call.ret.items[i].name)

\* the spec's example: "Foo" at t1 and "foo" at t2 yield {"foo": [t1, t2]}
C3_Witness ==
    /\ call.op = "migrate"
    /\ arg = MakeList(<<"Foo", "foo">>)
    /\ call.ret = PyDict(<<[name |-> Namefoo, points |-> <<SampleNo(1), SampleNo(2)>>]>>)

\* the keys written in the file, as they stand in its bytes
FileKeys(f) == SelectSeq(f.bytes, LAMBDA t : t.t = "name")

\* the file is a mapping whose keys are lowercase and distinct after lowercasing
NormalizedMapping(f) ==
    /\ f.exists
    /\ JsonLoad(f.bytes).exc = "none"
    /\ JsonLoad(f.bytes).ret.kind = "dict"
    /\ \A i \in 1..Len(FileKeys(f)) : Lower(FileKeys(f)[i].v) = FileKeys(f)[i].v
    /\ \A i, j \in 1..Len(FileKeys(f)) :
          i # j => Lower(FileKeys(f)[i].v) # Lower(FileKeys(f)[j].v)

\* C4, as stated: after a successful save, or a load of a file that parses, the
\* file is a mapping with lowercase keys, no two equal after lowercasing.
C4_AsStated ==
    (\/ call.op = "save" /\ call.ret
     \/ call.op = "load" /\ call.exc \notin {"no_file", "JSONDecodeError"})
        => NormalizedMapping(file)

\* C4, amended: the same after a successful save, or a load of a file that is a
\* mapping or a legacy list all of whose records carry timestamp and online_users
\* (a load whose migration fails leaves the legacy list in the file).
C4_PersistedKeys ==
    (\/ call.op = "save" /\ call.ret
     \/ call.op = "load" /\ call.exc = "none")
        => NormalizedMapping(file)

C4_Witness ==
    /\ call.op = "load" /\ call.exc = "none" /\ ~call.after_save
    /\ arg.kind = "dict" /\ HasCollision(arg)
    /\ call.ret = normalize_subreddit_names(arg)
    /\ NormalizedMapping(file)

\* the parsed document j is the Store a, normalized, sample for sample
HoldsAll(j, a) ==
    /\ j.ret = normalize_subreddit_names(a)
    /\ CountPoints(j.ret.items, Len(j.ret.items)) = CountPoints(a.items, Len(a.items))

\* C10: a save of a Store raises nothing, returns False exactly when the file
\* system fails it, leaves the Store it was passed as it was, and when it returns
\* True the file holds every sample of the Store, those appended after an earlier
\* failed save included.
C10_SaveFailureIsValue ==
    [][(call'.op = "save" /\ arg.kind = "dict")
          => /\ ~call'.raised
             /\ call'.ret = (call'.io = "ok")
             /\ arg' = arg
             /\ call'.ret => HoldsAll(JsonLoad(file'.bytes), arg)]_vars

C10_Witness ==
    /\ call.op = "save" /\ call.ret /\ call.retried
    /\ arg.kind = "dict" /\ appended > 0
    /\ JsonLoad(file.bytes).ret = normalize_subreddit_names(arg)

\* C11: a load that finds no file, or an empty one, returns {} and raises
\* nothing; after a save of a Store with lowercase keys has then returned True,
\* the next load returns that Store.
C11_EmptyThenRoundTrip ==
    /\ (call.op = "load" /\ call.since_empty = 1)
          => (call.ret = EmptyDict /\ ~call.raised)
    /\ (call.op = "load" /\ call.since_empty = 3 /\ arg.kind = "dict" /\ AllLowerKeys(arg))
          => (call.ret = arg /\ ~call.raised)

C11_Witness ==
    /\ call.op = "load" /\ call.since_empty = 3
    /\ arg.kind = "dict" /\ AllLowerKeys(arg)
    /\ HasKey(arg.items, Namebar) /\ Len(Series(arg, Namebar)) > 0
    /\ call.ret = arg

\* C12: after a load of a file that parses, a legacy list or a mapping, the file
\* holds the Store the load returned.
C12_AsStated ==
    (call.op = "load" /\ call.exc \notin {"no_file", "JSONDecodeError"})
        => JsonLoad(file.bytes) = [exc |-> "none", ret |-> call.ret]

\* C13: a load of a legacy list with a record that lacks timestamp or
\* online_users does not return a Store, as a load that succeeded does: the
\* error reaches the caller.
C13_AsStated ==
    (call.op = "load" /\ call.exc = "KeyError")
        => (call.raised \/ call.ret.kind # "dict")

\* the series of the first i keys of a Store that lowercase to k, one after the
\* other in the Store's key order
RECURSIVE ConcatOf(_, _, _)
ConcatOf(items, k, i) ==
    IF i = 0 THEN <<>>
    ELSE ConcatOf(items, k, i - 1)
            \o (IF Lower(items[i].name) = k THEN items[i].points ELSE <<>>)

\* n is the Store d normalized, as the merge of d's series
MergeOf(n, d) ==
    /\ n.kind = "dict"
    /\ KeysOf(n) = {Lower(d.items[i].name) : i \in 1..Len(d.items)}
    /\ Cardinality(KeysOf(n)) = Len(n.items)
    /\ \A i \in 1..Len(n.items) :
          n.items[i].points = ConcatOf(d.items, n.items[i].name, Len(d.items))
    /\ CountPoints(n.items, Len(n.items)) = CountPoints(d.items, Len(d.items))

\* C22: the keys of normalize_subreddit_names(S) are the lowercased keys of S,
\* each once; the series of each is the concatenation, in S's key order, of the
\* series of the keys of S that lowercase to it, every series whole and in its
\* own order; and the number of samples is that of S.
C22_NormalizeMerges ==
    (call.op = "normalize" /\ arg.kind = "dict") => MergeOf(call.ret, arg)

\* "Foo" with two samples and "foo" with one are merged into three, in order
C22_Witness ==
    /\ call.op = "normalize" /\ arg.kind = "dict"
    /\ Len(arg.items) >= 2
    /\ arg.items[1].name = NameFoo /\ Len(arg.items[1].points) = 2
    /\ HasKey(arg.items, Namefoo) /\ Len(Series(arg, Namefoo)) = 1
    /\ Series(call.ret, Namefoo) = arg.items[1].points \o Series(arg, Namefoo)

\* what save and load make of an input: a list is migrated, then normalized
Transformed(x) ==
    IF x.kind = "list"
    THEN normalize_subreddit_names(migrate_data_format(x).ret)
    ELSE normalize_subreddit_names(x)

\* a mapping, or a legacy list all of whose records have every field
ProperInput(x) == x.kind = "dict" \/ WellFormedList(x)

\* C25: for an input that is a mapping or a legacy list of full records, the
\* file after a save of it that returned True, and the file after a load that
\* follows its being written verbatim, both hold the dump of the input
\* migrated (a list) and normalized, and so are equal.
C25_SameTransform ==
    /\ (call.op = "save" /\ call.ret /\ ProperInput(arg))
          => (file.exists /\ file.bytes = Dump(Transformed(arg)))
    /\ (call.op = "load" /\ call.after_write /\ ProperInput(arg))
          => (file.exists /\ file.bytes = Dump(Transformed(arg)))

\* a legacy list with "Foo" and "foo", written verbatim and loaded: the file is
\* the one a save of the list leaves
C25_Witness ==
    /\ call.op = "load" /\ call.after_write
    /\ arg = MakeList(<<"Foo", "foo">>)
    /\ file = save_data_to_json(arg, MissingFile, "ok").file
    /\ JsonLoad(file.bytes).ret =
          PyDict(<<[name |-> Namefoo, points |-> <<SampleNo(1), SampleNo(2)>>]>>)

\* C28: a load of a file that does not parse as JSON, or of a legacy list whose
\* migration fails, returns {} , raises nothing and leaves the file as it was.
C28_LoadFailureAbsorbed ==
    [][(call'.op = "load" /\ call'.exc \notin {"none", "no_file"})
          => /\ call'.ret = EmptyDict
             /\ ~call'.raised
             /\ file' = file]_vars

\* a legacy list with a record that lacks a field is still in the file after
\* the load that returned {}
C28_Witness ==
    /\ call.op = "load" /\ call.exc = "KeyError"
    /\ call.ret = EmptyDict /\ ~call.raised
    /\ arg.kind = "list" /\ ~WellFormedList(arg)
    /\ file.bytes = Dump(arg)

\* ================================================ claims on the poll loops
\* the fetch results that are values, in the order of their ticks
ValuesOf(results) == SelectSeq(results, LAMBDA r : ~r.none)

\* the samples a series has gained over the one it began as
Gained(now, before) == SubSeq(now, Len(before) + 1, Len(now))

\* the samples carry the values, in order, at rising times
CarriesValues(samples, values) ==
    /\ Len(samples) = Len(values)
    /\ \A i \in 1..Len(samples) : samples[i].online_users = values[i].v
    /\ \A i, j \in 1..Len(samples) : i < j => samples[i].timestamp < samples[j].timestamp

\* the loop has its Store
LoopBegun == HasKey(tracking_data.items, subreddit)

\* C5: at every point of a poll loop, in the CLI and in the dashboard, the
\* series of the target community is the series the loop began with followed
\* by one sample per fetch result that was a value, carrying that value, in the
\* order of the ticks; an absent result adds none, and no other series changes.
\* The same samples are what the community's series gains in the normalized
\* Store that a save writes.
C5_OneSamplePerValue ==
    LoopBegun =>
        /\ KeysOf(tracking_data) = KeysOf(loaded)
        /\ \A k \in KeysOf(loaded) \ {subreddit} :
              Series(tracking_data, k) = Series(loaded, k)
        /\ Len(Series(tracking_data, subreddit)) >= Len(Series(loaded, subreddit))
        /\ SubSeq(Series(tracking_data, subreddit), 1, Len(Series(loaded, subreddit)))
              = Series(loaded, subreddit)
        /\ CarriesValues(Gained(Series(tracking_data, subreddit),
                                Series(loaded, subreddit)),
                         ValuesOf(fetched))
        /\ Series(normalize_subreddit_names(tracking_data), Lower(subreddit))
              = Series(normalize_subreddit_names(loaded), Lower(subreddit))
                   \o Gained(Series(tracking_data, subreddit), Series(loaded, subreddit))

\* three ticks gave 10, absent, 12, and the series has gained 10 then 12
C5_Witness ==
    /\ fetched = <<Some(10), None, Some(12)>>
    /\ pc = "sleep"
    /\ Len(Gained(Series(tracking_data, subreddit), Series(loaded, subreddit))) = 2
    /\ Gained(Series(tracking_data, subreddit), Series(loaded, subreddit))[1].online_users = 10
    /\ Gained(Series(tracking_data, subreddit), Series(loaded, subreddit))[2].online_users = 12

\* the positions of a loop that is POLLING
PollingPcs == {"check", "fetch", "save_open", "save_dump", "sleep"}

C8_AsStated ==
    [][(pc' = "done" /\ pc # "done") => pc \in {"final_open", "final_dump"}]_vars

\* C9: while the poller is in its sleep and its last save returned True, the
\* file (read while no write of it is underway) holds
\* normalize_subreddit_names of the poller's tracking_data.
C9_AsStated ==
    (pc = "sleep" /\ save_ret = "ok" /\ ui_pc = "idle")
        => JsonLoad(file.bytes) =
              [exc |-> "none", ret |-> normalize_subreddit_names(tracking_data)]

\* the sequence a begins the sequence b
IsPrefix(a, b) == Len(a) <= Len(b) /\ SubSeq(b, 1, Len(a)) = a

\* the parsed document j is a mapping that holds every series of the Store d,
\* under its lowercased name, each followed by zero or more later samples
Extends(j, d) ==
    /\ j.exc = "none" /\ j.ret.kind = "dict"
    /\ \A k \in KeysOf(d) :
          /\ HasKey(normalize_subreddit_names(j.ret).items, k)
          /\ IsPrefix(Series(d, k), Series(normalize_subreddit_names(j.ret), k))

\* C14: the samples a successful save has written stay in the file, at their
\* places: while the poller is in its sleep after a save that returned True,
\* the file (read while no write of it is underway) holds each series of the
\* Store that was saved, possibly followed by later samples.
C14_AsStated ==
    (mode = "dash" /\ pc = "sleep" /\ save_ret = "ok" /\ ui_pc = "idle")
        => Extends(JsonLoad(file.bytes), normalize_subreddit_names(tracking_data))

\* the stop has come in time for the poller to act on it: a request in flight
\* is one the model still lets return
StopPending ==
    /\ mode = "dash" /\ stop_event
    /\ pc \in PollingPcs
    /\ pc = "fetch" => ticks < MaxTicks

\* C16: the poller reads the event at the loop's test only: a fetch starts only
\* from a test that found it clear, the tick under way when it is set runs to
\* its sleep, the loop ends only at a test that finds it set, and that test
\* starts no fetch; with requests and sleeps returning, the poller then ends.
C16_CooperativeStop ==
    /\ [][(mode = "dash" /\ pc' = "fetch" /\ pc # "fetch")
             => (pc = "check" /\ ~stop_event)]_vars
    /\ [][(mode = "dash" /\ tracking_data' # tracking_data /\ LoopBegun)
             => (pc = "fetch" /\ pc' = "save_open")]_vars
    /\ [][(mode = "dash" /\ pc \in PollingPcs /\ pc' \notin PollingPcs)
             => (pc = "check" /\ stop_event /\ pc' = "done")]_vars
    /\ [][(mode = "dash" /\ pc = "check" /\ stop_event /\ pc' # pc) => pc' = "done"]_vars
    /\ [][stop_event => stop_event']_vars
    /\ (StopPending ~> pc = "done")

\* the poller has ended after a stop, with a sample recorded
C16_Witness ==
    /\ mode = "dash" /\ stop_event /\ pc = "done"
    /\ data_points > 0
    /\ update_queue[Len(update_queue)].action = "update_status"

\* C17: every key of the loop's Store is lowercase, and no two keys are equal
\* after lowercasing.
C17_AsStated ==
    LoopBegun =>
        /\ AllLowerKeys(tracking_data)
        /\ \A i, j \in 1..Len(tracking_data.items) :
              i # j => Lower(tracking_data.items[i].name) # Lower(tracking_data.items[j].name)

\* C20: a tick whose fetch returns None leaves the loop's Store and the file as
\* they were, calls no save and puts nothing on the queue, and goes to the
\* sleep; the sleep goes on to the next turn of the loop and changes neither.
C20_AbsentTick ==
    /\ [][(pc = "fetch" /\ Len(fetched') = Len(fetched) + 1
             /\ fetched'[Len(fetched')].none)
             => /\ pc' = "sleep"
                /\ tracking_data' = tracking_data
                /\ file' = file
                /\ save_ret' = save_ret
                /\ update_queue' = update_queue]_vars
    /\ [][(pc = "sleep" /\ pc' # pc /\ pc' # "final_open")
             => (pc' = LoopStart /\ tracking_data' = tracking_data /\ file' = file)]_vars

\* a tick without a value, then a next tick that recorded 10
C20_Witness ==
    /\ Len(fetched) = 2 /\ fetched[1].none /\ fetched[2] = Some(10)
    /\ pc = "sleep"
    /\ Len(Gained(Series(tracking_data, subreddit), Series(loaded, subreddit))) = 1

\* the step appends one sample to the target's series and changes nothing else
\* of the Store
AppendsOne ==
    /\ LoopBegun
    /\ Len(Series(tracking_data', subreddit)) = Len(Series(tracking_data, subreddit)) + 1
    /\ tracking_data' = Appended(tracking_data, subreddit,
                                 Series(tracking_data', subreddit)[Len(Series(tracking_data', subreddit))])

\* C21: the fetcher is called from the head of a turn only, once, and the loop
\* does not come back to it before its sleep; a value is appended in the step
\* that received it and the save is what follows; a save in the loop is entered
\* only from such an append; the save, whatever it returns, is followed by the
\* sleep and by no second save; the Store changes in the loop by such appends
\* only.  (A KeyboardInterrupt ends the turn where it is.)
C21_TickProtocol ==
    /\ [][ticks' # ticks =>
             (pc = "fetch" /\ ticks' = ticks + 1 /\ pc' # "fetch")]_vars
    /\ [][(pc' = "fetch" /\ pc # "fetch") =>
             (pc \in {"sleep", "check"} \/ ticks = 0)]_vars
    /\ [][(pc = "fetch" /\ Len(fetched') = Len(fetched) + 1
             /\ ~fetched'[Len(fetched')].none) =>
             (AppendsOne /\ pc' = "save_open" /\ file' = file)]_vars
    /\ [][(pc' = "save_open" /\ pc # "save_open") =>
             (pc = "fetch" /\ AppendsOne)]_vars
    /\ [][(pc = "save_open" /\ pc' # pc) =>
             (pc' \in {"save_dump", "sleep", "final_open"}
              /\ tracking_data' = tracking_data /\ ticks' = ticks)]_vars
    /\ [][(pc = "save_dump" /\ pc' # pc) =>
             (pc' \in {"sleep", "final_open"}
              /\ tracking_data' = tracking_data /\ ticks' = ticks)]_vars
    /\ [][(pc' = "sleep" /\ pc # "sleep") =>
             pc \in {"fetch", "save_open", "save_dump"}]_vars
    /\ [][(pc \in PollingPcs /\ tracking_data' # tracking_data) =>
             (pc = "fetch" /\ pc' = "save_open")]_vars

\* two turns in the CLI, each with a value, appended and saved: the loop is at
\* its second sleep and the file holds both samples
C21_Witness ==
    /\ mode = "cli" /\ pc = "sleep" /\ ticks = 2
    /\ fetched = <<Some(12), Some(10)>>
    /\ save_ret = "ok"
    /\ JsonLoad(file.bytes).ret = normalize_subreddit_names(tracking_data)
    /\ Len(Gained(Series(tracking_data, subreddit), Series(loaded, subreddit))) = 2

\* the parsed document j holds the Store n0 with, under the name t, zero or
\* more of the samples in gained after n0's own
OnlyAppended(j, n0, t, gained) ==
    /\ j.exc = "none" /\ j.ret.kind = "dict"
    /\ \A k \in KeysOf(n0) \ {t} :
          HasKey(j.ret.items, k) /\ Series(j.ret, k) = Series(n0, k)
    /\ HasKey(j.ret.items, t)
    /\ IsPrefix(Series(n0, t), Series(j.ret, t))
    /\ IsPrefix(Series(j.ret, t), Series(n0, t) \o gained)

\* C23 (as stated): in the CLI, the one poller and the one writer, started on a
\* file that held samples, whenever the loop is between two writes (at its fetch
\* or in its sleep) the file holds every series the load found, normalized, as
\* it was, the target's followed by samples appended in this run.
C23_AsStated ==
    (mode = "cli" /\ LoopBegun /\ pc \in {"fetch", "sleep"}
       /\ CountPoints(loaded.items, Len(loaded.items)) > 0)
        => OnlyAppended(JsonLoad(file.bytes), normalize_subreddit_names(loaded),
                        Lower(subreddit),
                        Gained(Series(tracking_data, subreddit), Series(loaded, subreddit)))

\* what a load_data_from_json() call that reads the file now returns: the
\* Store read, or the handler's {}
ReadNow == IF LoadRead(file).exc = "none" THEN LoadRead(file).data ELSE EmptyDict

\* C24 (as stated): a load_data_from_json() of the UI thread that reads the
\* file while a save_data_to_json of the poller is under way returns the Store
\* persisted before that save or the one it persists, and so at least the
\* samples the poller found in the file when it began, never an empty or
\* partial Store.
C24_AsStated ==
    (mode = "dash" /\ pc = "save_dump" /\ ui_pc = "idle" /\ save_ret # "failed"
       /\ CountPoints(loaded.items, Len(loaded.items)) > 0)
        => /\ file.exists
           /\ LoadRead(file).exc = "none"
           /\ CountPoints(ReadNow.items, Len(ReadNow.items))
                 >= CountPoints(loaded.items, Len(loaded.items))

\* ================================================ claims on the dashboard
\* the pollers that have not yet left their loop
InLoop == {i \in 1..Len(threads) : threads[i].pc # "done"}

\* C15 (as stated): in one dashboard session, whatever the Start and Stop
\* presses, at most one poller thread that has not yet left its loop exists at
\* any time.
C15_AsStated == Cardinality(InLoop) <= 1

\* the fields of the session state the UI shows
Shown(s) == <<s.tracking_active, s.latest_data, s.tracking_history, s.error_message>>

\* the step is a step of a poller thread
PollerStep ==
    /\ Len(threads') = Len(threads)
    /\ threads' # threads

\* the step takes the message at the head of the queue being drained and
\* applies it
TakesHead ==
    /\ pq.pc = "drain"
    /\ ~Empty(queues[pq.queue])
    /\ queues'[pq.queue].head = queues[pq.queue].head + 1
    /\ session' = Applied(session, queues[pq.queue].log[queues[pq.queue].head + 1])

\* the step is a button's: Start adds a thread, Stop sets the event, Clear
\* History empties the history
ButtonStep ==
    /\ pq.pc = "idle"
    /\ threads' = threads => queues' = queues
    /\ \/ ~session.tracking_active /\ session'.tracking_active
          /\ Len(threads') = Len(threads) + 1
       \/ session.tracking_active /\ ~session'.tracking_active
          /\ events'[session.stop_event]
       \/ session'.tracking_history = <<>> /\ Shown(session') = Shown([session EXCEPT !.tracking_history = <<>>])

\* C18: no step of a poller thread changes the session state; tracking_active,
\* latest_data, tracking_history and error_message change only in a step of the
\* UI thread, a button's or the drain's taking a message from the queue, and
\* latest_data only to the payload of an 'update_latest' message the poller of
\* the current queue has put.
C18_QueueOnly ==
    /\ [][PollerStep => session' = session]_vars
    /\ [][Shown(session') # Shown(session) => (TakesHead \/ ButtonStep)]_vars
    /\ [][session'.latest_data # session.latest_data =>
            /\ TakesHead
            /\ pq.queue = session.update_queue
            /\ queues[pq.queue].log[queues[pq.queue].head + 1]
                   = Msg("update_latest", session'.latest_data)]_vars

\* a sample a poller reported is shown, and the poller is still in its loop
C18_Witness ==
    /\ session.latest_data # NoData
    /\ \E i \in InLoop : threads[i].data_points >= 1 /\ threads[i].pc = "fetch"
    /\ session.tracking_history # <<>>
    /\ session.tracking_history[Len(session.tracking_history)].data_points >= 1

\* the positions of the 'update_latest' messages among the first n of a log
LatestIn(log, n) == {k \in 1..n : log[k].action = "update_latest"}

Last(S) == CHOOSE k \in S : \A j \in S : j <= k

\* the payload of the last 'update_latest' among the first n of a log
LastLatest(log, n) == log[Last(LatestIn(log, n))].data

\* the call of process_queue_updates returns
DrainEnds == pq.pc = "drain" /\ pq'.pc = "idle"

\* C19 (as stated): when a call of process_queue_updates returns, latest_data
\* is the payload of the last 'update_latest' message that was put on the
\* current queue before the call began.
C19_AsStated ==
    [][(DrainEnds /\ LatestIn(queues[pq.queue].log, pq.mark) # {}) =>
          session'.latest_data = LastLatest(queues[pq.queue].log, pq.mark)]_vars

DrainedAt(q, mark, s) ==
    /\ q.head >= mark
    /\ q.head = Len(q.log)
    /\ LatestIn(q.log, q.head) # {} => s.latest_data = LastLatest(q.log, q.head)

\* C19: a call of process_queue_updates takes the messages of the current queue
\* one by one in the order they were put and applies each; when it returns, every
\* message that was on the queue when it began has been taken, the queue is
\* empty, and latest_data is the payload of the last 'update_latest' message
\* taken from that queue: the last one put before the call, or one put while
\* the call ran.
C19_Drain ==
    /\ [][(pq.pc = "drain" /\ queues'[pq.queue].head # queues[pq.queue].head) =>
             TakesHead]_vars
    /\ [][DrainEnds => DrainedAt(queues'[pq.queue], pq.mark, session')]_vars

\* a call is about to return: it has taken an 'update_latest' that was on the
\* queue when it began and a message put while it ran
C19_Witness ==
    /\ pq.pc = "drain"
    /\ Empty(queues[pq.queue])
    /\ LatestIn(queues[pq.queue].log, pq.mark) # {}
    /\ Len(queues[pq.queue].log) > pq.mark
    /\ session.latest_data = LastLatest(queues[pq.queue].log, Len(queues[pq.queue].log))

\* the step leaves the session state, the threads, the events and the queues
\* as they were
NothingStarted ==
    /\ session' = session /\ threads' = threads
    /\ events' = events /\ queues' = queues

\* C27: a thread, an event or a queue is made only by a Start pressed while
\* tracking_active is false and a name is entered; an event is set only by a
\* Stop pressed while tracking_active is true; Start pressed with an empty
\* name, Start pressed while tracking_active is true and Stop pressed while it
\* is false answer with a notice and leave tracking_active, the history, the
\* threads, the events and the queues unchanged.
C27_Guards ==
    /\ [][(threads' # threads /\ Len(threads') # Len(threads)) =>
             (~session.tracking_active /\ subreddit # <<>>
              /\ Len(threads') = Len(threads) + 1)]_vars
    /\ [][(Len(events') # Len(events) \/ Len(queues') # Len(queues)) =>
             (~session.tracking_active /\ subreddit # <<>>)]_vars
    /\ [][(Len(events') = Len(events) /\ events' # events) =>
             (session.tracking_active /\ ~session'.tracking_active)]_vars
    /\ [][(session'.tracking_active # session.tracking_active) =>
             (pq.pc = "idle" /\ subreddit # <<>>)]_vars
    /\ [][(notice' = "warning" /\ notice # notice') =>
             (session.tracking_active /\ NothingStarted)]_vars
    /\ [][(notice' = "info" /\ notice # notice') =>
             (~session.tracking_active /\ NothingStarted)]_vars
    /\ [][(notice' = "error" /\ notice # notice') =>
             (subreddit = <<>> /\ NothingStarted)]_vars

\* Start has been pressed while the one poller was tracking, and has been
\* refused: there is still one thread, one event, not set
C27_Witness ==
    /\ notice = "warning"
    /\ session.tracking_active
    /\ Len(threads) = 1 /\ threads[1].pc = "fetch"
    /\ events = <<FALSE>>
    /\ Len(session.tracking_history) = 1

\* ================================================== claims on the fetcher
SuccessStatus(status) == 200 <= status /\ status < 300

HasCountField(resp) == resp.body = "count"

Unparseable(resp) == resp.body \in {"not_json", "null", "list"}

FieldMissing(resp) == resp.body \in {"no_data", "data_null", "data_empty"}

\* C6: get_online_users raises nothing; it returns the value of
\* data.active_user_count when the response has a success status and a
\* parseable body holding the field, and returns None when the status is
\* outside the success range, when the transport fails, when the body does not
\* parse, or when the data object or the field is missing.
C6_AsStated ==
    call.op = "fetch" =>
        /\ ~call.raised
        /\ (response.transport = "ok" /\ SuccessStatus(response.status)
              /\ HasCountField(response))
             => online_users = (IF response.count.null THEN None
                                ELSE Some(response.count.v))
        /\ (\/ response.transport # "ok"
            \/ ~SuccessStatus(response.status)
            \/ Unparseable(response)
            \/ FieldMissing(response))
             => online_users = None

\* C26 (as stated): every value get_online_users returns, which is the
\* online_users of the Sample the poll loop then appends and saves, is a
\* non-negative integer, whatever the response holds in data.active_user_count.
C26_AsStated ==
    (call.op = "fetch" /\ ~online_users.none) => online_users.v \in Nat

====
